---- MODULE Spec2Model ----
(***************************************************************************)
(* Emergency alert lifecycle, geospatial matching and notification         *)
(* dispatch of climate-guardian-ai (backend/app).                          *)
(*                                                                         *)
(*   Spec          the alert endpoints (create / update) over the store    *)
(*   MatchSpec     AlertService._find_affected_users on bounded inputs     *)
(*   DispatchSpec  AlertService.send_alert_notifications and               *)
(*                 send_alert_update_notifications on bounded inputs       *)
(*   ConcSpec      two update calls interleaved on one alert               *)
(*   StoreSpec     the endpoints, proof anchoring, responses and cleanup   *)
(*   RiskSpec      PredictionService risk scoring on bounded observations  *)
(*   IngestSpec    DataIngestionService runs interleaved at their awaits   *)
(*   IotSpec       the sensor registry of IoTConnector                     *)
(*                                                                         *)
(* Optional values are sequences: <<>> is None, <<x>> is the value x.      *)
(* Coordinates are points of a line (kilometres); the geodesic distance    *)
(* of two points is the absolute difference.                               *)
(***************************************************************************)
EXTENDS Integers, Sequences, FiniteSets, TLC

VARIABLES alerts, users, lastCall, tasks, matched, pass,
          sessions, anchor, responses, climate, assessment,
          ingestion, registry

\* The state of the feeds: the ingestion runs and the IoT sensor registry.
feeds == <<ingestion, registry>>

\* The state outside the alert store, the user table and the dispatch records.
ext == <<sessions, anchor, responses, climate, assessment, feeds>>

vars == <<alerts, users, lastCall, tasks, matched, pass, ext>>

----------------------------------------------------------------------------
(* Bounds *)

NumAlerts == 1

NumUsers == 2

\* Clock readings (datetime.utcnow()).
MaxTime == 2

NumResponses == 1

\* Observations the ingestion runs fetch in all.
MaxFetches == 3

\* Sensors, and messages the connector receives in all.
NumSensors == 2

MaxMessages == 3

AlertIds == 1..NumAlerts

UserIds == 1..NumUsers

Times == 1..MaxTime

ResponseIds == 1..NumResponses

----------------------------------------------------------------------------
(* Enumerations and option values *)

None == <<>>

Some(x) == <<x>>

Severities == {"low", "medium", "high", "critical"}

Statuses == {"active", "resolved", "cancelled"}

Terminal == {"resolved", "cancelled"}

Roles == {"citizen", "government", "emergency_responder", "researcher", "admin"}

\* Every role may create and update alerts.
AnyRole == Roles

PermittedRoles == {"government", "emergency_responder", "admin"}

\* The roles requests are drawn from: one refused, two permitted.
CallerRoles == {"citizen", "government", "admin"}

GovernmentRoles == {"government", "emergency_responder"}

DefaultRadius == 50

\* A row of emergency_alerts: the columns the operations read or write.
\* updated_at and blockchain_hash have no default and start NULL.
Alert(status, severity, radius) ==
    [status |-> status, severity |-> severity, radius |-> radius, at |-> 0,
     updated_at |-> None, blockchain_hash |-> None]

NoAlert == Alert("absent", "low", None)

Stored(a) == alerts[a].status # "absent"

----------------------------------------------------------------------------
(* The alert endpoints *)

Unset == "unset"

\* EmergencyAlertBase.dict(): every field of the schema is a key, issuer included.
DraftKeys == {"title", "description", "severity", "latitude", "longitude", "radius",
              "issuer", "source", "contact_info"}

\* The keywords create_emergency_alert passes beside **alert.dict().
ExplicitKwargs == {"alert_id", "issuer"}

\* EmergencyAlert(alert_id=..., issuer=..., **alert.dict()): a keyword given
\* twice is a TypeError at the call.
ConstructorRaises == (ExplicitKwargs \cap DraftKeys) # {}

\* EmergencyAlert derives from declarative_base() and defines no dict():
\* db_alert.dict() / alert.dict() raise AttributeError.
ModelHasDict == FALSE

Call(op, role, id, body, dbOk, code, detail) ==
    [op |-> op, role |-> role, alert_id |-> id, body |-> body, dbOk |-> dbOk,
     code |-> code, detail |-> detail]

NoCall == Call("none", "citizen", 0, [status |-> Unset, severity |-> Unset, radius |-> None],
               TRUE, 0, "")

Task(fn, id) == [fn |-> fn, alert_id |-> id]

\* The slot a new row takes (the generated alert_id is fresh).
FreeSlots == {a \in AlertIds : ~Stored(a)}

NewAlert(draft) == Alert("active", draft.severity, draft.radius)

\* POST /alerts
CreateAlert(role, draft, dbOk) ==
    LET body == [status |-> Unset, severity |-> draft.severity, radius |-> draft.radius]
        Reply(id, code, detail) == Call("create", role, id, body, dbOk, code, detail)
    IN  /\ UNCHANGED <<users, matched, pass, ext>>
        /\ IF role \notin PermittedRoles
           THEN /\ lastCall' = Reply(0, 403, "Insufficient permissions to create emergency alerts")
                /\ UNCHANGED <<alerts, tasks>>
           ELSE IF ConstructorRaises \/ ~dbOk \/ FreeSlots = {}
           THEN \* except Exception: db.rollback(); 500
                /\ lastCall' = Reply(0, 500, "Failed to create emergency alert")
                /\ UNCHANGED <<alerts, tasks>>
           ELSE LET a == CHOOSE x \in FreeSlots : \A y \in FreeSlots : x <= y
                IN  /\ alerts' = [alerts EXCEPT ![a] = NewAlert(draft)]   \* db.add; db.commit
                    /\ IF ~ModelHasDict
                       THEN \* db_alert.dict() raises after the commit
                            /\ lastCall' = Reply(0, 500, "Failed to create emergency alert")
                            /\ UNCHANGED tasks
                       ELSE /\ tasks' = tasks \o <<Task("submit_emergency_alert", a),
                                                   Task("send_alert_notifications", a)>>
                            /\ lastCall' = Reply(a, 200, "")

\* A patch taken as the whole new content: a field it lacks goes back to its default.
ReplaceAll(alert, patch) ==
    [alert EXCEPT !.status = IF patch.status = Unset THEN "active" ELSE patch.status,
                  !.severity = IF patch.severity = Unset THEN "medium" ELSE patch.severity]

\* for field, value in update_data.items(): setattr(alert, field, value)
ApplyPatch(alert, patch) ==
    [alert EXCEPT !.status = IF patch.status = Unset THEN @ ELSE patch.status,
                  !.severity = IF patch.severity = Unset THEN @ ELSE patch.severity]

\* PUT /alerts/{alert_id}
UpdateAlert(role, a, patch, dbOk, now) ==
    LET body == [status |-> patch.status, severity |-> patch.severity, radius |-> None]
        Reply(code, detail) == Call("update", role, a, body, dbOk, code, detail)
    IN  /\ UNCHANGED <<users, matched, pass, ext>>
        /\ IF role \notin PermittedRoles
           THEN /\ lastCall' = Reply(403, "Insufficient permissions to update emergency alerts")
                /\ UNCHANGED <<alerts, tasks>>
           ELSE IF ~dbOk
           THEN /\ lastCall' = Reply(500, "Failed to update emergency alert")
                /\ UNCHANGED <<alerts, tasks>>
           ELSE IF ~Stored(a)
           THEN /\ lastCall' = Reply(404, "Emergency alert not found")
                /\ UNCHANGED <<alerts, tasks>>
           ELSE \* setattr per field; alert.updated_at = datetime.utcnow(); db.commit()
                /\ alerts' = [alerts EXCEPT ![a] = [ApplyPatch(@, patch) EXCEPT !.updated_at = Some(now)]]
                /\ IF ~ModelHasDict
                   THEN \* alert.dict() raises after the commit; rollback undoes nothing
                        /\ lastCall' = Reply(500, "Failed to update emergency alert")
                        /\ UNCHANGED tasks
                   ELSE /\ tasks' = tasks \o <<Task("update_emergency_alert", a)>>
                                    \o (IF patch.status # Unset
                                        THEN <<Task("send_alert_update_notifications", a)>>
                                        ELSE <<>>)
                        /\ lastCall' = Reply(200, "")

----------------------------------------------------------------------------
(* update_emergency_alert as the store sees it: each request has its own      *)
(* session (get_db). The query loads the row into the session, setattr marks *)
(* columns dirty, and commit flushes one UPDATE of the dirty columns of that  *)
(* row. Two requests may be served by different workers, so the steps of two  *)
(* requests can interleave.                                                   *)

Calls == {1, 2}

PatchFields == {"status", "severity"}

\* alert_update.dict(exclude_unset=True).keys()
Present(patch) == {f \in PatchFields : patch[f] # Unset}

NoSession == [pc |-> "idle", alert_id |-> 0, patch |-> [status |-> Unset, severity |-> Unset],
              snapshot |-> NoAlert, code |-> 0]

\* The UPDATE of a flush sets every column of the row, as the session holds it.
AllColumns(snapshot, patch) == PatchFields

\* The UPDATE of a flush sets the columns whose value differs from the loaded one.
DirtyColumns(snapshot, patch) == {f \in Present(patch) : patch[f] # snapshot[f]}

\* The row after the UPDATE: the written columns come from the session's object,
\* the others stay as the store has them.
Flush(row, obj, cols) ==
    [f \in DOMAIN row |-> IF f \in cols \cup {"updated_at"} THEN obj[f] ELSE row[f]]

\* db.query(EmergencyAlert).filter(alert_id == ...).first(), and the 404.
BeginUpdate(c, a, patch) ==
    /\ sessions[c].pc = "idle"
    /\ sessions' = [sessions EXCEPT ![c] =
                       IF Stored(a)
                       THEN [pc |-> "loaded", alert_id |-> a, patch |-> patch,
                             snapshot |-> alerts[a], code |-> 0]
                       ELSE [pc |-> "done", alert_id |-> a, patch |-> patch,
                             snapshot |-> NoAlert, code |-> 404]]
    /\ UNCHANGED <<alerts, users, lastCall, tasks, matched, pass,
                   anchor, responses, climate, assessment, feeds>>

\* setattr per field; updated_at; db.commit(); db.refresh(); then the reply,
\* which alert.dict() turns into a 500 after the commit.
CommitUpdate(c, dbOk, now) ==
    LET ss  == sessions[c]
        obj == [ApplyPatch(ss.snapshot, ss.patch) EXCEPT !.updated_at = Some(now)]
    IN  /\ ss.pc = "loaded"
        /\ IF dbOk
           THEN /\ alerts' = [alerts EXCEPT ![ss.alert_id] =
                                 Flush(@, obj, DirtyColumns(ss.snapshot, ss.patch))]
                /\ sessions' = [sessions EXCEPT ![c].pc = "committed",
                                                ![c].code = IF ModelHasDict THEN 200 ELSE 500]
           ELSE /\ sessions' = [sessions EXCEPT ![c].pc = "done", ![c].code = 500]
                /\ UNCHANGED alerts
        /\ UNCHANGED <<users, lastCall, tasks, matched, pass,
                       anchor, responses, climate, assessment, feeds>>

----------------------------------------------------------------------------
(* Proof anchoring, emergency responses and the data-sync cleanup *)

TxHashes == {"0xa1"}

\* BlockchainService.submit_emergency_alert, as the background task of the
\* endpoints and as POST /blockchain/emergency-alert run it: the transaction
\* hash goes back to the caller in the returned dict; the alert row is not
\* written. Not connected, no hash, or an exception: None.
SubmitEmergencyAlert(a, connected, tx) ==
    /\ Stored(a)
    /\ anchor' = [alert_id |-> a, returned |-> IF connected THEN tx ELSE None]
    /\ UNCHANGED <<alerts, users, lastCall, tasks, matched, pass,
                   sessions, responses, climate, assessment, feeds>>

ResponseStatuses == {"pending", "in_progress", "completed", "cancelled"}

NoResponse == [status |-> "absent", alert_id |-> 0]

ResponseBody(st) == [status |-> st, severity |-> Unset, radius |-> None]

FreeResponses == {r \in ResponseIds : responses[r].status = "absent"}

\* POST /responses
CreateResponse(role, a, dbOk) ==
    LET Reply(code, detail) == Call("create_response", role, a, ResponseBody(Unset), dbOk, code, detail)
    IN  /\ UNCHANGED <<alerts, users, tasks, matched, pass, sessions, anchor, climate, assessment, feeds>>
        /\ IF role \notin PermittedRoles
           THEN /\ lastCall' = Reply(403, "Insufficient permissions to create emergency responses")
                /\ UNCHANGED responses
           ELSE IF ~dbOk \/ FreeResponses = {}
           THEN /\ lastCall' = Reply(500, "Failed to create emergency response")
                /\ UNCHANGED responses
           ELSE IF ~Stored(a)
           THEN /\ lastCall' = Reply(404, "Associated emergency alert not found")
                /\ UNCHANGED responses
           ELSE LET r == CHOOSE x \in FreeResponses : \A y \in FreeResponses : x <= y
                IN  /\ responses' = [responses EXCEPT ![r] = [status |-> "pending", alert_id |-> a]]
                    /\ lastCall' = Reply(200, "")

\* PUT /responses/{response_id}
UpdateResponse(role, r, st, dbOk) ==
    LET Reply(code, detail) == Call("update_response", role, r, ResponseBody(st), dbOk, code, detail)
    IN  /\ UNCHANGED <<alerts, users, tasks, matched, pass, sessions, anchor, climate, assessment, feeds>>
        /\ IF role \notin PermittedRoles
           THEN /\ lastCall' = Reply(403, "Insufficient permissions to update emergency responses")
                /\ UNCHANGED responses
           ELSE IF ~dbOk
           THEN /\ lastCall' = Reply(500, "Failed to update emergency response")
                /\ UNCHANGED responses
           ELSE IF responses[r].status = "absent"
           THEN /\ lastCall' = Reply(404, "Emergency response not found")
                /\ UNCHANGED responses
           ELSE /\ responses' = [responses EXCEPT ![r].status = IF st = Unset THEN @ ELSE st]
                /\ lastCall' = Reply(200, "")

RetentionDays == 90

\* Rows of climate_data, by the age of their timestamp in days.
ClimateRows == {[station_id |-> 1, age |-> 10], [station_id |-> 1, age |-> 100]}

\* A cleanup that also drops the alerts that are closed.
CleanupOldDataAndAlerts(dbOk) ==
    /\ climate' = IF dbOk THEN {row \in climate : row.age <= RetentionDays} ELSE climate
    /\ alerts' = IF dbOk
                 THEN [a \in AlertIds |-> IF alerts[a].status \in Terminal THEN NoAlert ELSE alerts[a]]
                 ELSE alerts
    /\ UNCHANGED <<users, lastCall, tasks, matched, pass,
                   sessions, anchor, responses, assessment, feeds>>

\* DataSyncManager.cleanup_old_data: deletes the climate_data rows whose
\* timestamp is before the cutoff; a failure rolls back.
CleanupOldData(dbOk) ==
    /\ climate' = IF dbOk THEN {row \in climate : row.age <= RetentionDays} ELSE climate
    /\ UNCHANGED <<alerts, users, lastCall, tasks, matched, pass,
                   sessions, anchor, responses, assessment, feeds>>

----------------------------------------------------------------------------
(* PredictionService.generate_risk_assessment                                 *)
(*                                                                           *)
(* Readings are in tenths of their unit (temperature 400 is 40.0 degrees).   *)
(* A score is an integer number of 1/Unit: Unit is the score 1.0. Unit is    *)
(* chosen so that every rule and the mean of six rule scores is exact.       *)

Unit == 270000

Categories == {"flood", "drought", "storm", "heat_wave", "cold_wave", "wildfire"}

NoReading == [tag |-> "none", v |-> 0]

Num(v) == [tag |-> "num", v |-> v]

\* A reading that is not a number (a non-numeric string).
TextReading == [tag |-> "text", v |-> 0]

\* Python truth of a reading: None and 0.0 are false.
Truthy(r) == r.tag = "text" \/ (r.tag = "num" /\ r.v # 0)

\* min(1.0, x)
Clamp(x) == IF x > Unit THEN Unit ELSE x

\* The float NaN, as a score: no number equals it and every comparison with it
\* is false.
NaN == -1

HasNaN(scores) == \E c \in Categories : scores[c] = NaN

\* The largest of the six scores.
Largest(scores) ==
    IF HasNaN(scores) THEN NaN
    ELSE CHOOSE x \in {scores[c] : c \in Categories} : \A c \in Categories : scores[c] <= x

\* np.mean: NaN as soon as one score is NaN.
Mean(scores) ==
    IF HasNaN(scores) THEN NaN
    ELSE (scores["flood"] + scores["drought"] + scores["storm"]
          + scores["heat_wave"] + scores["cold_wave"] + scores["wildfire"]) \div 6

RiskResult(version, scores, confidence) ==
    [model_version |-> version, scores |-> scores, overall_risk |-> Mean(scores),
     confidence_score |-> confidence]

\* The learned tier raises when the model is unavailable or a reading is not a
\* number (the feature vector is then not numeric).
LearnedRaises(obs, learned) ==
    \/ learned.kind = "unavailable"
    \/ \E k \in {"temperature", "humidity", "precipitation", "wind_speed"} : obs[k].tag = "text"

\* The rule tier raises when a comparison meets a reading that is not a number.
RuleRaises(obs) ==
    \/ obs.temperature.tag = "text"
    \/ obs.precipitation.tag = "text"
    \/ obs.wind_speed.tag = "text"
    \/ obs.humidity.tag = "text" /\ Truthy(obs.temperature)

\* Rules that read a missing precipitation as 0 mm: below 1 mm, so drought.
RuleScoresMissingAsZero(obs) ==
    [c \in Categories |->
        IF c = "drought" /\ obs.precipitation.tag = "none" THEN (3 * Unit) \div 10 ELSE 0]

RuleScores(obs) ==
    LET t == obs.temperature
        h == obs.humidity
        p == obs.precipitation
        w == obs.wind_speed
    IN  [c \in Categories |->
           CASE c = "heat_wave" ->
                  IF Truthy(t) /\ t.v > 350 THEN Clamp(2700 * (t.v - 350)) ELSE 0
             [] c = "cold_wave" ->
                  IF Truthy(t) /\ ~(t.v > 350) /\ t.v < -100 THEN Clamp(1350 * (-100 - t.v)) ELSE 0
             [] c = "flood" ->
                  IF Truthy(p) /\ p.v > 500 THEN Clamp(270 * (p.v - 500)) ELSE 0
             [] c = "drought" ->
                  IF Truthy(p) /\ ~(p.v > 500) /\ p.v < 10 THEN (3 * Unit) \div 10 ELSE 0
             [] c = "storm" ->
                  IF Truthy(w) /\ w.v > 150 THEN Clamp(1350 * (w.v - 150)) ELSE 0
             [] c = "wildfire" ->
                  IF Truthy(h) /\ Truthy(t) /\ h.v < 300 /\ t.v > 250
                  THEN Clamp(6 * (300 - h.v) * (t.v - 250)) ELSE 0]

\* _generate_default_risk_assessment: the rule-based assessment, or None when
\* its body raises.
GenerateDefaultRiskAssessment(obs) ==
    IF RuleRaises(obs) THEN None
    ELSE Some(RiskResult("rule_based_v1.0", RuleScores(obs), 60))

\* The record of one scoring: the inputs, the tiers that failed, the result.
Scored(op, obs, learned, learnedFailed, ruleFailed, result) ==
    [op |-> op, obs |-> obs, learned |-> learned, learned_failed |-> learnedFailed,
     rule_failed |-> ruleFailed, result |-> result, raised |-> FALSE]

NoObservation ==
    [has_timestamp |-> TRUE, temperature |-> NoReading, humidity |-> NoReading,
     precipitation |-> NoReading, wind_speed |-> NoReading]

Unavailable == [kind |-> "unavailable", scores |-> [c \in Categories |-> 0]]

NoScore == Scored("none", NoObservation, Unavailable, FALSE, FALSE, None)

\* The body of generate_risk_assessment: the learned assessment, built from the
\* model's output as it comes; the rule-based one when no feature vector can be
\* built (no timestamp) or the learned tier raises.
ScoreObservation(op, obs, learned) ==
    LET features == obs.has_timestamp
        learnedFailed == features /\ LearnedRaises(obs, learned)
        ruleTried == ~features \/ learnedFailed
    IN  Scored(op, obs, learned, learnedFailed, ruleTried /\ RuleRaises(obs),
               IF ruleTried THEN GenerateDefaultRiskAssessment(obs)
               ELSE Some(RiskResult("v1.0", learned.scores, 85)))

GenerateRiskAssessment(obs, learned) ==
    /\ assessment' = ScoreObservation("generate_risk_assessment", obs, learned)
    /\ UNCHANGED <<alerts, users, lastCall, tasks, matched, pass,
                   sessions, anchor, responses, climate, feeds>>

\* _generate_default_location_risk
DefaultLocationRisk ==
    [model_version |-> "default_v1.0", scores |-> [c \in Categories |-> Unit \div 10],
     overall_risk |-> Unit \div 10, confidence_score |-> 50]

\* Field(..., ge=0, le=1) of RiskAssessmentBase: NaN passes neither bound.
InUnitInterval(x) == x # NaN /\ 0 <= x /\ x <= Unit

\* RiskAssessmentResponse(...) accepts the assessment.
ResponseValid(r) ==
    /\ \A c \in Categories : InUnitInterval(r.scores[c])
    /\ InUnitInterval(r.overall_risk)

\* A forecast point is a validated ClimateDataResponse: it has a timestamp and
\* its readings are numbers or None.
ForecastPoint(obs) ==
    /\ obs.has_timestamp
    /\ \A k \in {"temperature", "humidity", "precipitation", "wind_speed"} : obs[k].tag # "text"

\* generate_location_risk_assessment: the assessment of the first forecast
\* point as a response; the default when there is no forecast, no assessment,
\* or the response cannot be built.
GenerateLocationRiskAssessment(hasForecast, obs, learned) ==
    LET inner == ScoreObservation("generate_location_risk_assessment", obs, learned)
    IN  /\ ForecastPoint(obs)
        /\ assessment' =
              IF ~hasForecast
              THEN Scored("generate_location_risk_assessment", obs, learned, FALSE, FALSE,
                          Some(DefaultLocationRisk))
              ELSE IF inner.result = None \/ ~ResponseValid(inner.result[1])
              THEN [inner EXCEPT !.result = Some(DefaultLocationRisk)]
              ELSE inner
        /\ UNCHANGED <<alerts, users, lastCall, tasks, matched, pass,
                       sessions, anchor, responses, climate, feeds>>

----------------------------------------------------------------------------
(* Users *)

NullLoc == [tag |-> "null", at |-> 0]

\* default_latitude / default_longitude are String columns: text that float() refuses.
TextLoc == [tag |-> "text", at |-> 0]

NumLoc(p) == [tag |-> "num", at |-> p]

User(active, role, loc, nradius, email, phone) ==
    [is_active |-> active, role |-> role, loc |-> loc, notification_radius |-> nradius,
     email |-> email, phone_number |-> phone]

DefaultUser == User(TRUE, "citizen", NullLoc, Some(DefaultRadius), TRUE, FALSE)

----------------------------------------------------------------------------
(* AlertService._find_affected_users *)

\* Python's `x or 50`: None and 0 are both falsy.
OrDefault(opt) == IF opt = None \/ opt = Some(0) THEN DefaultRadius ELSE opt[1]

Max(x, y) == IF x >= y THEN x ELSE y

\* geodesic(alert_location, user_location).kilometers
Dist(p, q) == IF p >= q THEN p - q ELSE q - p

NarrowerRadius(alert, user) ==
    IF OrDefault(alert.radius) <= OrDefault(user.notification_radius)
    THEN OrDefault(alert.radius) ELSE OrDefault(user.notification_radius)

EffectiveRadius(alert, user) ==
    Max(OrDefault(alert.radius), OrDefault(user.notification_radius))

\* The query: active users with both coordinates set.
Candidates == {u \in UserIds : users[u].is_active /\ users[u].loc.tag # "null"}

\* One turn of the loop over the candidates; a location float() refuses is skipped.
IsAffected(alert, user) ==
    /\ user.loc.tag = "num"
    /\ Dist(alert.at, user.loc.at) <= EffectiveRadius(alert, user)

\* A matcher that also takes every active government or responder user.
RECURSIVE AffectedFromWithAgencies(_, _)
AffectedFromWithAgencies(a, u) ==
    IF u > NumUsers THEN <<>>
    ELSE (IF \/ u \in Candidates /\ IsAffected(alerts[a], users[u])
             \/ users[u].is_active /\ users[u].role \in GovernmentRoles
          THEN <<u>> ELSE <<>>)
         \o AffectedFromWithAgencies(a, u + 1)

RECURSIVE AffectedFrom(_, _)
AffectedFrom(a, u) ==
    IF u > NumUsers THEN <<>>
    ELSE (IF u \in Candidates /\ IsAffected(alerts[a], users[u]) THEN <<u>> ELSE <<>>)
         \o AffectedFrom(a, u + 1)

\* A failing query is caught and yields no user.
FindAffectedUsers(a, queryOk) == IF queryOk THEN AffectedFrom(a, 1) ELSE <<>>

Range(seq) == {seq[i] : i \in 1..Len(seq)}

NoMatch == [alert_id |-> 0, queryOk |-> TRUE, users |-> <<>>]

FindAffected(a, queryOk) ==
    /\ Stored(a)
    /\ matched' = [alert_id |-> a, queryOk |-> queryOk, users |-> FindAffectedUsers(a, queryOk)]
    /\ UNCHANGED <<alerts, users, lastCall, tasks, pass, ext>>

----------------------------------------------------------------------------
(* AlertService.send_alert_notifications / send_alert_update_notifications *)

Channels == {"push", "email", "sms"}

\* The running aggregate of a pass, with the sends made so far.
EmptyAcc == [sent |-> 0, errors |-> <<>>, channels |-> <<>>, attempts |-> {}, succeeded |-> {}]

\* A send that lists its channel only while no channel is listed yet.
SendListingFirstChannel(acc, u, ch, failed) ==
    LET ok == <<u, ch>> \notin failed
    IN  [acc EXCEPT !.attempts = @ \cup {<<u, ch>>},
                    !.succeeded = IF ok THEN @ \cup {<<u, ch>>} ELSE @,
                    !.sent = IF ok THEN @ + 1 ELSE @,
                    !.channels = IF ok /\ @ = <<>> THEN Append(@, ch) ELSE @]

\* One awaited _send_*_notification(user, alert): the helper catches whatever its
\* body raises and returns False, so a send ends True or False and never raises.
\* The caller counts a True and lists the channel once.
Send(acc, u, ch, failed) ==
    LET ok == <<u, ch>> \notin failed
    IN  [acc EXCEPT !.attempts = @ \cup {<<u, ch>>},
                    !.succeeded = IF ok THEN @ \cup {<<u, ch>>} ELSE @,
                    !.sent = IF ok THEN @ + 1 ELSE @,
                    !.channels = IF ok /\ ch \notin Range(@) THEN Append(@, ch) ELSE @]

SmsForAnySeverity(alert, user) == user.phone_number

SmsEligible(alert, user) == alert.severity = "critical" /\ user.phone_number

NotifyUserStopAtFailure(acc, a, u, failed) ==
    LET a1 == Send(acc, u, "push", failed)
        a2 == IF users[u].email THEN Send(a1, u, "email", failed) ELSE a1
        a3 == IF SmsEligible(alerts[a], users[u]) THEN Send(a2, u, "sms", failed) ELSE a2
    IN  IF <<u, "push">> \in failed THEN a1
        ELSE IF users[u].email /\ <<u, "email">> \in failed THEN a2
        ELSE a3

\* The body of the loop over the affected users: push, then email when the user
\* has one, then SMS for a critical alert when the user has a phone number.
\* No send raises, so the loop's except branch (an entry in errors) is never taken.
NotifyUser(acc, a, u, failed) ==
    LET a1 == Send(acc, u, "push", failed)
        a2 == IF users[u].email THEN Send(a1, u, "email", failed) ELSE a1
        a3 == IF SmsEligible(alerts[a], users[u]) THEN Send(a2, u, "sms", failed) ELSE a2
    IN  a3

RECURSIVE NotifyAll(_, _, _, _)
NotifyAll(acc, a, us, failed) ==
    IF us = <<>> THEN acc
    ELSE NotifyAll(NotifyUser(acc, a, Head(us), failed), a, Tail(us), failed)

GovernmentUsers ==
    {u \in UserIds : users[u].is_active /\ users[u].role \in GovernmentRoles}

\* _notify_government_agencies: the government email, then a push, per user; the
\* results are dropped. A failing query is caught and notifies nobody.
NotifyGovernmentAgencies(a, queryOk) ==
    IF queryOk THEN GovernmentUsers \X {"government_email", "push"} ELSE {}

GetUpdateMessage(alert) ==
    IF alert.status = "resolved" THEN "RESOLVED"
    ELSE IF alert.status = "cancelled" THEN "CANCELLED"
    ELSE "UPDATE"

Pass(kind, a, queryOk, affected, acc, gov, hasChannels, message) ==
    [kind |-> kind, alert_id |-> a, queryOk |-> queryOk, affected |-> affected,
     attempts |-> acc.attempts, succeeded |-> acc.succeeded, gov_attempts |-> gov,
     result |-> [notifications_sent |-> acc.sent, errors |-> acc.errors,
                 channels_used |-> acc.channels, has_channels_used |-> hasChannels],
     message |-> message, raised |-> FALSE, before |-> {}]

NoPass == Pass("none", 0, TRUE, <<>>, EmptyAcc, {}, FALSE, "")

\* A pass reads the store and the users and writes neither.
SendAlertNotifications(a, queryOk, failed) ==
    LET affected == FindAffectedUsers(a, queryOk)
    IN  /\ Stored(a)
        /\ pass = NoPass
        /\ pass' = IF affected = <<>>
                   THEN \* return {"notifications_sent": 0, "errors": []}
                        Pass("alert", a, queryOk, affected, EmptyAcc, {}, FALSE, "")
                   ELSE Pass("alert", a, queryOk, affected,
                             NotifyAll(EmptyAcc, a, affected, failed),
                             NotifyGovernmentAgencies(a, queryOk), TRUE, "")
        /\ UNCHANGED <<alerts, users, lastCall, tasks, matched, ext>>

RECURSIVE UpdateAll(_, _, _)
UpdateAll(acc, us, failed) ==
    IF us = <<>> THEN acc
    ELSE LET u == Head(us)
             ok == <<u, "push">> \notin failed
         IN  UpdateAll([acc EXCEPT !.attempts = @ \cup {<<u, "push">>},
                                   !.succeeded = IF ok THEN @ \cup {<<u, "push">>} ELSE @,
                                   !.sent = IF ok THEN @ + 1 ELSE @],
                       Tail(us), failed)

\* The users a pass delivered a notification to, the agencies it wrote to included.
Notified(p) ==
    {u \in UserIds : \E ch \in Channels \cup {"government_email"} :
                        <<u, ch>> \in p.succeeded \cup p.gov_attempts}

\* The update pass of an alert comes first or after the alert's creation pass,
\* whose recipients the record keeps in before.
SendAlertUpdateNotifications(a, queryOk, failed) ==
    LET affected == FindAffectedUsers(a, queryOk)
    IN  /\ Stored(a)
        /\ pass = NoPass \/ (pass.kind = "alert" /\ pass.alert_id = a)
        /\ pass' = [Pass("update", a, queryOk, affected, UpdateAll(EmptyAcc, affected, failed),
                         {}, FALSE, GetUpdateMessage(alerts[a]))
                    EXCEPT !.before = Notified(pass)]
        /\ UNCHANGED <<alerts, users, lastCall, tasks, matched, ext>>

----------------------------------------------------------------------------
(* Ingestion of external observations (services/data_ingestion.py). A run is *)
(* a coroutine: it gives way at an await (the fetch, the sleep) and nowhere   *)
(* between the duplicate check and the commit, which are synchronous calls.   *)

\* Two runs in flight, over two weather stations.
RunIds == {1, 2}

StationIds == {1, 2}

Sources == {"OpenWeatherMap", "NOAA"}

Key(station, timestamp, source) ==
    [station_id |-> station, timestamp |-> timestamp, data_source |-> source]

NoKey == Key(0, 0, "")

Keys == {Key(st, t, src) : st \in StationIds, t \in Times, src \in Sources}

Run(pc, key, outcome, returned) ==
    [pc |-> pc, key |-> key, outcome |-> outcome, returned |-> returned]

NoRun == Run("idle", NoKey, "none", None)

\* rows counts the climate_data records of each station, timestamp and source:
\* the table has no constraint that keeps the count at one.
NoIngestion ==
    [rows |-> [k \in Keys |-> 0], fetches |-> 0, runs |-> [r \in RunIds |-> NoRun]]

\* A duplicate check that finds nothing.
NeverExisting(rows, key) == FALSE

\* db.query(ClimateData).filter(station_id, timestamp, data_source).first()
Existing(rows, key) == rows[key] > 0

\* _fetch_openweather_current / _fetch_noaa_observations: run r holds the
\* observation of a station, stamped by the provider.
FetchCurrent(r, station, timestamp, source) ==
    /\ ingestion.runs[r].pc = "idle"
    /\ ingestion.fetches < MaxFetches
    /\ ingestion' = [ingestion EXCEPT
                        !.fetches = @ + 1,
                        !.runs[r] = Run("fetched", Key(station, timestamp, source), "none", None)]
    /\ UNCHANGED <<alerts, users, lastCall, tasks, matched, pass,
                   sessions, anchor, responses, climate, assessment, registry>>

\* _create_climate_data_from_openweather / _create_climate_data_from_noaa:
\* None for a duplicate, the committed record otherwise, None after a rollback.
CreateClimateData(r, dbOk) ==
    LET key == ingestion.runs[r].key
    IN  /\ ingestion.runs[r].pc = "fetched"
        /\ ingestion' =
              IF ~dbOk
              THEN [ingestion EXCEPT !.runs[r] = Run("idle", NoKey, "error", None)]
              ELSE IF Existing(ingestion.rows, key)
              THEN [ingestion EXCEPT !.runs[r] = Run("idle", NoKey, "duplicate", None)]
              ELSE [ingestion EXCEPT !.rows[key] = @ + 1,
                                     !.runs[r] = Run("idle", NoKey, "created", Some(key))]
        /\ UNCHANGED <<alerts, users, lastCall, tasks, matched, pass,
                       sessions, anchor, responses, climate, assessment, registry>>

----------------------------------------------------------------------------
(* The sensor registry of the IoT connector (utils/iot_connector.py) *)

SensorIds == 1..NumSensors

Entry(present, first, last, count, status) ==
    [present |-> present, first_seen |-> first, last_seen |-> last,
     message_count |-> count, has_status |-> status]

NoEntry == Entry(FALSE, None, None, None, FALSE)

\* received counts the messages handled, valid the data messages that passed
\* _validate_sensor_data, per sensor; read is the outcome of the last
\* get_sensor_registry.
NoRegistry ==
    [entries |-> [s \in SensorIds |-> NoEntry], received |-> 0,
     valid |-> [s \in SensorIds |-> 0], read |-> "none"]

\* datetime.utcnow() at the handling of the next message.
Now == registry.received + 1

\* _update_sensor_registry: first_seen only when the sensor has no entry yet.
UpdateSensorRegistry(entry) ==
    LET e == IF entry.present THEN entry ELSE Entry(TRUE, Some(Now), None, Some(0), FALSE)
    IN  [e EXCEPT !.last_seen = Some(Now),
                  !.message_count = Some((IF e.message_count = None THEN 0
                                          ELSE e.message_count[1]) + 1)]

\* _handle_sensor_data: an invalid message is dropped.
HandleSensorData(s, valid) ==
    /\ registry.received < MaxMessages
    /\ registry' =
          IF ~valid THEN [registry EXCEPT !.received = @ + 1]
          ELSE [registry EXCEPT !.received = @ + 1,
                                !.valid[s] = @ + 1,
                                !.entries[s] = UpdateSensorRegistry(@)]
    /\ UNCHANGED <<alerts, users, lastCall, tasks, matched, pass,
                   sessions, anchor, responses, climate, assessment, ingestion>>

\* _handle_sensor_status: an empty entry for an unknown sensor, then status.
HandleSensorStatus(s) ==
    /\ registry.received < MaxMessages
    /\ registry' = [registry EXCEPT !.received = @ + 1,
                                    !.entries[s] = [@ EXCEPT !.present = TRUE,
                                                             !.has_status = TRUE]]
    /\ UNCHANGED <<alerts, users, lastCall, tasks, matched, pass,
                   sessions, anchor, responses, climate, assessment, ingestion>>

\* get_sensor_registry: info["first_seen"] and info["last_seen"] of every entry.
GetSensorRegistry ==
    /\ registry' =
          [registry EXCEPT !.read =
              IF \A s \in SensorIds :
                    registry.entries[s].present =>
                        (registry.entries[s].first_seen # None
                         /\ registry.entries[s].last_seen # None)
              THEN "ok" ELSE "KeyError"]
    /\ UNCHANGED <<alerts, users, lastCall, tasks, matched, pass,
                   sessions, anchor, responses, climate, assessment, ingestion>>

----------------------------------------------------------------------------
(* Idle values of the state outside the alert store *)

NoAnchor == [alert_id |-> 0, returned |-> None]

ExtInit ==
    /\ sessions = [c \in Calls |-> NoSession]
    /\ anchor = NoAnchor
    /\ responses = [r \in ResponseIds |-> NoResponse]
    /\ climate = {}
    /\ assessment = NoScore
    /\ ingestion = NoIngestion
    /\ registry = NoRegistry

OneAlert(a, rec) == [x \in AlertIds |-> IF x = a THEN rec ELSE NoAlert]

----------------------------------------------------------------------------
(* Specification of the alert endpoints *)

InitSeverities == {"low", "critical"}

PatchSeverities == {Unset, "high"}

Drafts == [severity : InitSeverities, radius : {None}]

Patches == [status : {Unset} \cup Statuses, severity : PatchSeverities]

\* The store holds rows written earlier (status defaults to active).
StoredAlerts ==
    {Alert("active", s, None) : s \in InitSeverities}

Init ==
    /\ alerts \in [AlertIds -> {NoAlert} \cup StoredAlerts]
    /\ users = [u \in UserIds |-> DefaultUser]
    /\ lastCall = NoCall
    /\ tasks = <<>>
    /\ matched = NoMatch
    /\ pass = NoPass
    /\ ExtInit

Create == \E role \in CallerRoles, draft \in Drafts, dbOk \in BOOLEAN : CreateAlert(role, draft, dbOk)

Update ==
    \E role \in CallerRoles, a \in AlertIds, patch \in Patches, dbOk \in BOOLEAN, now \in Times :
        UpdateAlert(role, a, patch, dbOk, now)

Next == Create \/ Update

Spec == Init /\ [][Next]_vars

----------------------------------------------------------------------------
(* Specification of concurrent updates: one stored alert, two requests.      *)

ConcInit ==
    /\ \E a \in AlertIds, sv \in InitSeverities : alerts = OneAlert(a, Alert("active", sv, None))
    /\ users = [u \in UserIds |-> DefaultUser]
    /\ lastCall = NoCall
    /\ tasks = <<>>
    /\ matched = NoMatch
    /\ pass = NoPass
    /\ ExtInit

Begin == \E c \in Calls, a \in AlertIds, patch \in Patches : BeginUpdate(c, a, patch)

Commit == \E c \in Calls, dbOk \in BOOLEAN, now \in Times : CommitUpdate(c, dbOk, now)

ConcNext == Begin \/ Commit

ConcSpec == ConcInit /\ [][ConcNext]_vars

----------------------------------------------------------------------------
(* Specification of the store: the alert and response endpoints, proof       *)
(* anchoring and the cleanup of old climate data, over one store.            *)

StoreInit ==
    /\ alerts \in [AlertIds -> {NoAlert} \cup StoredAlerts]
    /\ users = [u \in UserIds |-> DefaultUser]
    /\ lastCall = NoCall
    /\ tasks = <<>>
    /\ matched = NoMatch
    /\ pass = NoPass
    /\ sessions = [c \in Calls |-> NoSession]
    /\ anchor = NoAnchor
    /\ responses = [r \in ResponseIds |-> NoResponse]
    /\ climate = ClimateRows
    /\ assessment = NoScore
    /\ ingestion = NoIngestion
    /\ registry = NoRegistry

StoreCreate == \E draft \in Drafts, dbOk \in BOOLEAN : CreateAlert("government", draft, dbOk)

StoreUpdate ==
    \E a \in AlertIds, st \in {Unset} \cup Statuses, dbOk \in BOOLEAN :
        UpdateAlert("government", a, [status |-> st, severity |-> Unset], dbOk, 1)

Anchor ==
    \E a \in AlertIds, connected \in BOOLEAN, tx \in {None} \cup {Some(h) : h \in TxHashes} :
        SubmitEmergencyAlert(a, connected, tx)

CreateResp == \E role \in CallerRoles, a \in AlertIds, dbOk \in BOOLEAN : CreateResponse(role, a, dbOk)

UpdateResp ==
    \E role \in CallerRoles, r \in ResponseIds, st \in {Unset, "completed"}, dbOk \in BOOLEAN :
        UpdateResponse(role, r, st, dbOk)

Cleanup == \E dbOk \in BOOLEAN : CleanupOldData(dbOk)

StoreNext == StoreCreate \/ StoreUpdate \/ Anchor \/ CreateResp \/ UpdateResp \/ Cleanup

StoreSpec == StoreInit /\ [][StoreNext]_vars

\* The service keeps running: some operation is always taken again.
StoreFairSpec == StoreSpec /\ WF_vars(StoreNext)

----------------------------------------------------------------------------
(* Specification of risk scoring: Init draws an observation and the output   *)
(* of the learned model, the action applies generate_risk_assessment.        *)

Temperatures == {NoReading, Num(0), Num(400), Num(-300), TextReading}

Humidities == {NoReading, Num(200), TextReading}

Precipitations == {NoReading, Num(5), Num(1500), TextReading}

WindSpeeds == {NoReading, Num(200), TextReading}

Observations ==
    [has_timestamp : BOOLEAN, temperature : Temperatures, humidity : Humidities,
     precipitation : Precipitations, wind_speed : WindSpeeds]

\* What the learned model returns: nothing, or a vector of six scores
\* (0.2 each; 0.9 for flood and 0.0 else; 1.5 for flood, out of range; NaN for storm).
LearnedOutputs ==
    {Unavailable,
     [kind |-> "vector", scores |-> [c \in Categories |-> Unit \div 5]],
     [kind |-> "vector", scores |-> [c \in Categories |-> IF c = "flood" THEN 9 * (Unit \div 10) ELSE 0]],
     [kind |-> "vector", scores |-> [c \in Categories |-> IF c = "flood" THEN 3 * (Unit \div 2) ELSE 0]],
     [kind |-> "vector", scores |-> [c \in Categories |-> IF c = "storm" THEN NaN ELSE Unit \div 5]]}

RiskInit ==
    /\ alerts = [a \in AlertIds |-> NoAlert]
    /\ users = [u \in UserIds |-> DefaultUser]
    /\ lastCall = NoCall
    /\ tasks = <<>>
    /\ matched = NoMatch
    /\ pass = NoPass
    /\ sessions = [c \in Calls |-> NoSession]
    /\ anchor = NoAnchor
    /\ responses = [r \in ResponseIds |-> NoResponse]
    /\ climate = {}
    /\ ingestion = NoIngestion
    /\ registry = NoRegistry
    /\ \E obs \in Observations, learned \in LearnedOutputs :
          assessment = Scored("none", obs, learned, FALSE, FALSE, None)

\* The scoring of the observation drawn at the start.
Score ==
    /\ assessment.op = "none"
    /\ GenerateRiskAssessment(assessment.obs, assessment.learned)

ScoreLocation ==
    /\ assessment.op = "none"
    /\ \E hasForecast \in BOOLEAN :
          GenerateLocationRiskAssessment(hasForecast, assessment.obs, assessment.learned)

RiskNext == Score \/ ScoreLocation

RiskSpec == RiskInit /\ [][RiskNext]_vars

----------------------------------------------------------------------------
(* Specification of the ingestion: runs of ingest_openweather_data and of     *)
(* ingest_noaa_data over one store, interleaved at their awaits.              *)

IdleInit ==
    /\ alerts = [a \in AlertIds |-> NoAlert]
    /\ users = [u \in UserIds |-> DefaultUser]
    /\ lastCall = NoCall
    /\ tasks = <<>>
    /\ matched = NoMatch
    /\ pass = NoPass
    /\ ExtInit

Fetch ==
    \E r \in RunIds, station \in StationIds, timestamp \in Times, source \in Sources :
        FetchCurrent(r, station, timestamp, source)

CreateRecord == \E r \in RunIds, dbOk \in BOOLEAN : CreateClimateData(r, dbOk)

IngestNext == Fetch \/ CreateRecord

IngestSpec == IdleInit /\ [][IngestNext]_vars

----------------------------------------------------------------------------
(* Specification of the IoT connector: data and status messages in any order, *)
(* and reads of the registry.                                                 *)

SensorData == \E s \in SensorIds, valid \in BOOLEAN : HandleSensorData(s, valid)

SensorStatus == \E s \in SensorIds : HandleSensorStatus(s)

ReadRegistry == GetSensorRegistry

IotNext == SensorData \/ SensorStatus \/ ReadRegistry

IotSpec == IdleInit /\ [][IotNext]_vars

----------------------------------------------------------------------------
(* Specification of the geospatial matcher: Init draws one stored alert and *)
(* the user table, the action applies _find_affected_users.                 *)

AlertRadii == {None, Some(0), Some(80)}

UserLocations == {NullLoc, TextLoc, NumLoc(0), NumLoc(30), NumLoc(70), NumLoc(100)}

UserRadii == {None, Some(0), Some(80)}

MatchUsers ==
    {User(TRUE, "citizen", l, r, TRUE, FALSE) : l \in UserLocations, r \in UserRadii}
    \cup {User(FALSE, "citizen", NumLoc(0), None, TRUE, FALSE),
          User(TRUE, "government", NullLoc, None, TRUE, FALSE),
          User(TRUE, "emergency_responder", NullLoc, Some(80), TRUE, FALSE),
          User(TRUE, "government", NumLoc(30), None, TRUE, FALSE)}

MatchInit ==
    /\ \E a \in AlertIds, r \in AlertRadii :
          alerts = OneAlert(a, Alert("active", "high", r))
    /\ users \in [UserIds -> MatchUsers]
    /\ lastCall = NoCall
    /\ tasks = <<>>
    /\ matched = NoMatch
    /\ pass = NoPass
    /\ ExtInit

Match == \E a \in AlertIds, queryOk \in BOOLEAN : FindAffected(a, queryOk)

MatchNext == Match

MatchSpec == MatchInit /\ [][MatchNext]_vars

----------------------------------------------------------------------------
(* Specification of the dispatch passes: Init draws one stored alert and the *)
(* user table; a behaviour holds a creation pass, an update pass, or the      *)
(* first followed by the second, since a pass changes neither.                *)

NearCitizens ==
    {User(TRUE, "citizen", NumLoc(0), None, e, p) : e \in BOOLEAN, p \in BOOLEAN}

DispatchUsers ==
    NearCitizens
    \cup {User(TRUE, "citizen", NumLoc(100), None, TRUE, TRUE),
          User(TRUE, "government", NullLoc, None, TRUE, TRUE),
          User(TRUE, "government", NumLoc(0), None, TRUE, FALSE),
          User(TRUE, "emergency_responder", NullLoc, None, TRUE, FALSE),
          User(FALSE, "government", NumLoc(0), None, TRUE, TRUE)}

\* An active alert of each severity, and a resolved and a cancelled one.
DispatchAlerts ==
    {Alert("active", sv, None) : sv \in Severities}
    \cup {Alert(st, "high", None) : st \in Terminal}

DispatchInit ==
    /\ \E a \in AlertIds, rec \in DispatchAlerts : alerts = OneAlert(a, rec)
    /\ users \in [UserIds -> DispatchUsers]
    /\ lastCall = NoCall
    /\ tasks = <<>>
    /\ matched = NoMatch
    /\ pass = NoPass
    /\ ExtInit

\* The sends a pass for alert a can make to user u.
PossibleSends(a, u) ==
    {<<u, "push">>}
    \cup (IF users[u].email THEN {<<u, "email">>} ELSE {})
    \cup (IF SmsEligible(alerts[a], users[u]) THEN {<<u, "sms">>} ELSE {})

\* The sends that fail are drawn among those the pass can make.
AlertPass ==
    \E a \in AlertIds, queryOk \in BOOLEAN :
        \E failed \in SUBSET (UNION {PossibleSends(a, u) : u \in Range(FindAffectedUsers(a, queryOk))}) :
            SendAlertNotifications(a, queryOk, failed)

UpdatePass ==
    \E a \in AlertIds, queryOk \in BOOLEAN :
        \E failed \in SUBSET (Range(FindAffectedUsers(a, queryOk)) \X {"push"}) :
            SendAlertUpdateNotifications(a, queryOk, failed)

DispatchNext == AlertPass \/ UpdatePass

DispatchSpec == DispatchInit /\ [][DispatchNext]_vars

----------------------------------------------------------------------------
(* Properties of the alert endpoints, stated over Spec *)

\* The request of a step is the one lastCall' records.
Authorised == lastCall'.role \in PermittedRoles /\ lastCall'.dbOk

\* C1: an alert's status only moves active -> resolved or active -> cancelled;
\* once it is resolved or cancelled it never changes again.
C1_StatusNeverLeavesTerminal ==
    [][\A a \in AlertIds :
          alerts[a].status \in Terminal => alerts'[a].status = alerts[a].status]_vars

\* C2: updateAlert on a resolved or cancelled alert with a patch that changes the
\* status is rejected (a client error, not a success and not a server failure),
\* the stored alert is left unchanged and no update-dispatch pass is scheduled.
C2_TerminalStatusChangeRejected ==
    [][\A a \in AlertIds :
          ( /\ lastCall'.op = "update" /\ lastCall'.alert_id = a /\ Authorised
            /\ alerts[a].status \in Terminal
            /\ lastCall'.body.status \notin {Unset, alerts[a].status} )
          => ( /\ lastCall'.code \in 400..499
               /\ alerts' = alerts
               /\ tasks' = tasks )]_vars

\* C9: every createAlert whose durable write succeeds (a permitted caller, the
\* store accepting the write) returns the created alert to the caller and has a
\* dispatch pass for that alert scheduled; the alert is stored.
C9_CreateReturnsAlertAndDispatches ==
    [][( /\ lastCall'.op = "create" /\ Authorised /\ FreeSlots # {} )
       => ( /\ lastCall'.code = 200
            /\ lastCall'.alert_id \in FreeSlots
            /\ alerts'[lastCall'.alert_id].status = "active"
            /\ \E i \in 1..Len(tasks') :
                  tasks'[i] = Task("send_alert_notifications", lastCall'.alert_id) )]_vars

\* C10: create and update are atomic on the durable write: a call that reports
\* failure leaves the stored alerts as they were, and a committed write is
\* reported as success.
C10_FailureLeavesStoreUnchanged ==
    [][( /\ (lastCall'.code # 200 => alerts' = alerts)
         /\ (alerts' # alerts => lastCall'.code = 200) )]_vars

\* An update step that reached the commit: a permitted caller, the store
\* answering, the alert stored.
UpdateCommitted(a) ==
    /\ lastCall'.op = "update" /\ lastCall'.alert_id = a /\ Authorised
    /\ Stored(a)

\* The fields of the request's patch land on the alert, the fields it lacks and
\* the columns no patch can name keep their value, and no other alert changes.
PatchApplied(a) ==
    /\ \A f \in {"status", "severity"} :
          alerts'[a][f] = IF lastCall'.body[f] = "unset" THEN alerts[a][f] ELSE lastCall'.body[f]
    /\ \A f \in {"radius", "at", "blockchain_hash"} : alerts'[a][f] = alerts[a][f]
    /\ \A b \in AlertIds \ {a} : alerts'[b] = alerts[b]

\* C26: createAlert by a caller whose role is not government, emergency
\* responder or admin is answered 403; no alert is created and neither the
\* anchoring of a proof nor a dispatch pass is scheduled.
C26_ForbiddenCreateDoesNothing ==
    [][( /\ lastCall'.op = "create"
         /\ lastCall'.role \notin {"government", "emergency_responder", "admin"} )
       => ( /\ lastCall'.code = 403
            /\ alerts' = alerts
            /\ tasks' = tasks )]_vars

C26_Witness ==
    /\ lastCall.op = "create"
    /\ lastCall.role = "citizen"
    /\ lastCall.code = 403
    /\ tasks = <<>>

\* C27: an updateAlert that is carried out schedules exactly one update-dispatch
\* pass when status is among the fields its patch changes, and none when the
\* patch does not change the status.
C27_StatusChangeSchedulesOneUpdatePass ==
    [][\A a \in AlertIds :
          UpdateCommitted(a) =>
              IF lastCall'.body.status \notin {Unset, alerts[a].status}
              THEN /\ lastCall'.code = 200
                   /\ tasks' = Append(tasks, Task("send_alert_update_notifications", a))
              ELSE \A i \in 1..Len(tasks') :
                      i > Len(tasks) => tasks'[i].fn # "send_alert_update_notifications"]_vars

\* C13 as stated: updateAlert applies exactly the fields present in the patch;
\* every alert field absent from the patch keeps the value it had before the call.
C13_AbsentFieldsUntouched ==
    [][\A a \in AlertIds :
          UpdateCommitted(a) => (PatchApplied(a) /\ alerts'[a].updated_at = alerts[a].updated_at)]_vars

\* C13, amended: updateAlert applies exactly the fields present in the patch;
\* every alert field absent from the patch keeps its value, except the
\* last-updated timestamp, which every committed update sets to the current time.
C13_AbsentFieldsUntouchedButTimestamp ==
    [][\A a \in AlertIds :
          UpdateCommitted(a) => (PatchApplied(a) /\ alerts'[a].updated_at # <<>>)]_vars

\* A resolved alert patched with a severity alone: the severity is the patch's,
\* the status is still resolved.
C13_Witness ==
    /\ lastCall.op = "update" /\ lastCall.role \in PermittedRoles /\ lastCall.dbOk
    /\ lastCall.body.status = "unset" /\ lastCall.body.severity = "high"
    /\ lastCall.alert_id \in AlertIds
    /\ alerts[lastCall.alert_id].status = "resolved"
    /\ alerts[lastCall.alert_id].severity = "high"
    /\ alerts[lastCall.alert_id].updated_at # <<>>

\* C14: updateAlert on a resolved or cancelled alert with a patch without a
\* status is accepted: the call succeeds, the patched fields are applied, the
\* status is unchanged and no update-dispatch pass is scheduled.
C14_TerminalNonStatusPatchAccepted ==
    [][\A a \in AlertIds :
          ( /\ UpdateCommitted(a)
            /\ alerts[a].status \in Terminal
            /\ lastCall'.body.status = "unset" )
          => ( /\ lastCall'.code = 200
               /\ PatchApplied(a)
               /\ alerts'[a].status = alerts[a].status
               /\ \A i \in 1..Len(tasks') :
                     (i > Len(tasks)) => tasks'[i].fn # "send_alert_update_notifications" )]_vars

----------------------------------------------------------------------------
(* Properties of the geospatial matcher, stated over MatchSpec *)

Matched(u) == \E i \in 1..Len(matched.users) : matched.users[i] = u

Located(u) == users[u].is_active /\ users[u].loc.tag = "num"

MatcherRan == matched.alert_id # 0 /\ matched.queryOk

C8_BeyondBothRadiiNeverMatched ==
    MatcherRan =>
        \A u \in UserIds :
            LET al == alerts[matched.alert_id]
            IN  ( /\ Located(u)
                  /\ al.radius # None /\ users[u].notification_radius # None
                  /\ Dist(al.at, users[u].loc.at) > al.radius[1]
                  /\ Dist(al.at, users[u].loc.at) > users[u].notification_radius[1] )
                => ~Matched(u)

\* C19: the matcher never returns a recipient without a registered location
\* (latitude or longitude missing), whatever its role.
C19_NoLocationNeverMatched ==
    \A u \in UserIds : Matched(u) => users[u].loc.tag # "null"

\* A government user without location is left out while a government user
\* with a location inside the radius is matched.
C19_Witness ==
    /\ MatcherRan
    /\ \E u \in UserIds :
          /\ users[u].is_active /\ users[u].role \in {"government", "emergency_responder"}
          /\ users[u].loc.tag = "null" /\ ~Matched(u)
    /\ \E u \in UserIds : users[u].role = "government" /\ Matched(u)

----------------------------------------------------------------------------
(* Properties of the dispatch passes, stated over DispatchSpec *)

Selected(u) == \E i \in 1..Len(pass.affected) : pass.affected[i] = u

Attempted(u, ch) == <<u, ch>> \in pass.attempts

Failed(u, ch) == Attempted(u, ch) /\ <<u, ch>> \notin pass.succeeded

PassAlert == alerts[pass.alert_id]

\* C3: in every dispatch pass for an alert (the user table being readable), every
\* active government or emergency-responder recipient is notified, also when
\* nobody is geospatially matched.
C3_GovernmentAlwaysNotified ==
    (pass.kind = "alert" /\ pass.queryOk) =>
        \A u \in UserIds :
            (users[u].is_active /\ users[u].role \in {"government", "emergency_responder"})
            => \E ch \in {"government_email", "push"} : <<u, ch>> \in pass.gov_attempts

\* C4: a pass in which every channel send fails does not raise; its aggregate
\* has zero successful notifications and a non-empty error list.
C4_AllFailedReportsErrors ==
    (pass.kind = "alert" /\ pass.attempts # {} /\ pass.succeeded = {})
    => ( /\ ~pass.raised
         /\ pass.result.notifications_sent = 0
         /\ pass.result.errors # <<>> )

\* C5: a failed channel attempt never prevents the remaining eligible channels of
\* the same recipient, nor any attempt for another recipient: every selected
\* recipient gets a push attempt, an email attempt when it has an email address
\* and an SMS attempt when the alert is critical and it has a phone number.
C5_FailureIsolation ==
    /\ pass.kind = "alert" =>
          \A u \in UserIds :
              Selected(u) =>
                  /\ Attempted(u, "push")
                  /\ users[u].email => Attempted(u, "email")
                  /\ (PassAlert.severity = "critical" /\ users[u].phone_number)
                     => Attempted(u, "sms")
    /\ pass.kind = "update" => \A u \in UserIds : Selected(u) => Attempted(u, "push")

\* The first recipient's push and email fail; its SMS and every channel of the
\* second recipient are attempted all the same.
C5_Witness ==
    /\ pass.kind = "alert"
    /\ pass.affected = <<1, 2>>
    /\ Failed(1, "push") /\ Failed(1, "email") /\ Attempted(1, "sms")
    /\ Attempted(2, "push") /\ Attempted(2, "email")

\* C6: an SMS is attempted only for a critical alert and a recipient with a phone
\* number; for low, medium and high no SMS is attempted and the aggregate never
\* lists sms as a channel used.
C6_SmsOnlyWhenCritical ==
    pass.kind # "none" =>
        /\ \A u \in UserIds :
              (Attempted(u, "sms") \/ <<u, "sms">> \in pass.gov_attempts)
              => (PassAlert.severity = "critical" /\ users[u].phone_number)
        /\ PassAlert.severity \in {"low", "medium", "high"} =>
              \A i \in 1..Len(pass.result.channels_used) :
                  pass.result.channels_used[i] # "sms"

\* A critical alert: the recipient with a phone number gets an SMS, the one
\* without gets none.
C6_Witness ==
    /\ pass.kind = "alert"
    /\ PassAlert.severity = "critical"
    /\ \E u \in UserIds : Attempted(u, "sms") /\ <<u, "sms">> \in pass.succeeded
    /\ \E u \in UserIds : Selected(u) /\ ~users[u].phone_number /\ ~Attempted(u, "sms")
    /\ \E i \in 1..Len(pass.result.channels_used) : pass.result.channels_used[i] = "sms"

\* C15: for a critical alert, one government recipient without location and
\* one ordinary recipient inside the radius with an email address only (all
\* sends succeeding), the aggregate reports exactly 2 notifications, one to the
\* government recipient (push or email) and one email to the ordinary
\* recipient, and no SMS is attempted.
C15_EndToEndTwoNotifications ==
    \A g \in UserIds, o \in UserIds :
        ( /\ pass.kind = "alert" /\ pass.queryOk
          /\ PassAlert.severity = "critical"
          /\ pass.attempts = pass.succeeded
          /\ users[g].is_active /\ users[g].role = "government" /\ users[g].loc.tag = "null"
          /\ users[o].is_active /\ users[o].role = "citizen" /\ Selected(o)
          /\ users[o].email /\ ~users[o].phone_number
          /\ \A u \in UserIds \ {g, o} : ~users[u].is_active )
        => ( /\ pass.result.notifications_sent = 2
             /\ \E ch \in {"government_email", "push"} : <<g, ch>> \in pass.gov_attempts
             /\ {at \in pass.attempts : at[1] = o} = {<<o, "email">>}
             /\ \A at \in pass.attempts \cup pass.gov_attempts : at[2] # "sms" )

\* The orders in which the selected recipients of a pass can be processed.
Orders == {p \in [1..Len(pass.affected) -> Range(pass.affected)] :
              \A i, j \in 1..Len(pass.affected) : p[i] = p[j] => i = j}

\* The sends of the pass that failed: the outcome of each (recipient, channel).
PassFailed == pass.attempts \ pass.succeeded

\* C16: for a fixed alert and fixed per-(recipient, channel) outcomes, every
\* processing order of the selected recipients yields the same aggregate: the
\* same count of successful sends, the same set of channels used and the same
\* set of error descriptions.
C16_DispatchCommutative ==
    (pass.kind = "alert" /\ pass.affected # <<>>) =>
        \A p \in Orders :
            LET r == NotifyAll(EmptyAcc, pass.alert_id, p, PassFailed)
            IN  /\ r.sent = pass.result.notifications_sent
                /\ Range(r.channels) = Range(pass.result.channels_used)
                /\ Range(r.errors) = Range(pass.result.errors)
                /\ r.succeeded = pass.succeeded

\* Two recipients with different outcomes: another order lists the channels in
\* another sequence, the set being the same.
C16_Witness ==
    /\ pass.kind = "alert" /\ Len(pass.affected) >= 2
    /\ pass.result.notifications_sent >= 2
    /\ PassFailed # {}
    /\ \E p \in Orders :
          /\ p # pass.affected
          /\ NotifyAll(EmptyAcc, pass.alert_id, p, PassFailed).channels # pass.result.channels_used

\* C29: with the recipient data unchanged, every recipient the creation pass of
\* an alert notified, matched users and government or emergency-responder users
\* alike, is sent the update notification by the update pass that follows.
C29_UpdatePassReachesCreationRecipients ==
    (pass.kind = "update" /\ pass.queryOk) =>
        \A u \in pass.before : <<u, "push">> \in pass.attempts

----------------------------------------------------------------------------
(* Properties of concurrent updates, stated over ConcSpec *)

Committed(c) == sessions[c].pc = "committed"

Disjoint(c, d) ==
    /\ c # d
    /\ sessions[c].alert_id = sessions[d].alert_id
    /\ Present(sessions[c].patch) \cap Present(sessions[d].patch) = {}

\* C11: two concurrent updateAlert calls on the same alert with patches on
\* disjoint fields never lose an update: in every interleaving, once both calls
\* have committed, the stored alert carries the fields written by both patches.
C11_NoLostUpdate ==
    \A c \in Calls, d \in Calls :
        (Committed(c) /\ Committed(d) /\ Disjoint(c, d))
        => \A f \in Present(sessions[c].patch) :
              alerts[sessions[c].alert_id][f] = sessions[c].patch[f]

\* Both requests loaded the row before either committed; one resolves the
\* alert, the other raises its severity, and the store holds both.
C11_Witness ==
    /\ Committed(1) /\ Committed(2) /\ Disjoint(1, 2)
    /\ sessions[1].snapshot = sessions[2].snapshot
    /\ sessions[1].snapshot.status = "active" /\ sessions[1].snapshot.severity = "low"
    /\ Present(sessions[1].patch) = {"status"} /\ sessions[1].patch.status = "resolved"
    /\ Present(sessions[2].patch) = {"severity"} /\ sessions[2].patch.severity = "high"
    /\ alerts[sessions[1].alert_id].status = "resolved"
    /\ alerts[sessions[1].alert_id].severity = "high"

----------------------------------------------------------------------------
(* Properties of the store, stated over StoreSpec and StoreFairSpec *)

\* C17: when proof anchoring of an alert returns a reference (transaction
\* hash), that reference is eventually stored on the alert record as its
\* blockchain_hash; when anchoring fails the reference stays as it was.
C17_AnchorReferenceStored ==
    /\ \A a \in AlertIds, h \in TxHashes :
          (anchor.alert_id = a /\ anchor.returned = <<h>>) ~> (alerts[a].blockchain_hash = <<h>>)
    /\ [][\A a \in AlertIds :
             (anchor'.alert_id = a /\ anchor'.returned = <<>>)
             => alerts'[a].blockchain_hash = alerts[a].blockchain_hash]_vars

\* C18: alerts are never deleted: whatever operation runs (alert create and
\* update, response create and update, failed requests, the cleanup of old
\* data), an alert that is stored stays stored under the same identity.
C18_AlertsNeverDeleted ==
    [][\A a \in AlertIds : Stored(a) => alerts'[a].status # "absent"]_vars

\* The cleanup has deleted the old climate rows, a response to the alert
\* exists, the last request failed, and the resolved alert is still stored.
C18_Witness ==
    /\ \A row \in climate : row.age <= 90
    /\ climate # {}
    /\ \E a \in AlertIds :
          /\ alerts[a].status = "resolved"
          /\ \E r \in ResponseIds : responses[r].alert_id = a /\ responses[r].status = "completed"
    /\ lastCall.code = 500

----------------------------------------------------------------------------
(* Properties of risk scoring, stated over RiskSpec *)

WellFormed(obs) ==
    /\ obs.has_timestamp
    /\ \A k \in {"temperature", "humidity", "precipitation", "wind_speed"} : obs[k].tag # "text"

IsDefaultTier(result) ==
    /\ result # <<>>
    /\ \A c \in Categories : 10 * result[1].scores[c] = Unit
    /\ result[1].confidence_score = 50

Produced == assessment.op # "none" /\ assessment.result # <<>>

Readings == {"temperature", "humidity", "precipitation", "wind_speed"}

\* C21: whichever tier produced the assessment, each of the six category
\* scores lies in [0,1].
C21_ScoresInUnitInterval ==
    Produced =>
        \A c \in Categories :
            /\ assessment.result[1].scores[c] # NaN
            /\ 0 <= assessment.result[1].scores[c]
            /\ assessment.result[1].scores[c] <= Unit

SixTimesOverallIsSum(r) ==
    6 * r.overall_risk =
        r.scores["flood"] + r.scores["drought"] + r.scores["storm"]
        + r.scores["heat_wave"] + r.scores["cold_wave"] + r.scores["wildfire"]

\* C22: whichever tier produced the assessment (learned, rule-based, default),
\* the overall score is the arithmetic mean of the six category scores of that
\* same assessment; the mean of scores with a NaN among them is NaN.
C22_OverallIsMeanOfSix ==
    Produced =>
        IF \E c \in Categories : assessment.result[1].scores[c] = NaN
        THEN assessment.result[1].overall_risk = NaN
        ELSE SixTimesOverallIsSum(assessment.result[1])

\* A learned assessment whose scores differ, so that their mean is none of them.
C22_Witness ==
    /\ Produced
    /\ assessment.result[1].model_version = "v1.0"
    /\ assessment.result[1].scores["flood"] > assessment.result[1].scores["storm"]
    /\ assessment.result[1].scores["storm"] >= 0
    /\ SixTimesOverallIsSum(assessment.result[1])

RuleTier == Produced /\ assessment.result[1].model_version = "rule_based_v1.0"

HotDryWindy(obs) ==
    /\ obs.temperature = Num(400)
    /\ obs.humidity = Num(200)
    /\ obs.wind_speed = Num(200)
    /\ obs.precipitation = NoReading

\* C23: for temperature 40, humidity 20, wind speed 20 and no other reading,
\* the rule-based tier scores heat wave, storm and wildfire each strictly above
\* 0.5 and flood, drought and cold wave 0.
C23_KnownInputAboveThreshold ==
    (RuleTier /\ HotDryWindy(assessment.obs)) =>
        /\ \A c \in {"heat_wave", "storm", "wildfire"} :
              2 * assessment.result[1].scores[c] > Unit
        /\ \A c \in {"flood", "drought", "cold_wave"} :
              assessment.result[1].scores[c] = 0

AllMissing(obs) == \A k \in Readings : obs[k] = NoReading

\* C24: for an observation whose every reading is missing, the rule-based tier
\* scores all six categories 0, and so the overall risk 0.
C24_AllMissingAllZero ==
    (RuleTier /\ AllMissing(assessment.obs)) =>
        /\ \A c \in Categories : assessment.result[1].scores[c] = 0
        /\ assessment.result[1].overall_risk = 0

C24_Witness ==
    /\ RuleTier
    /\ AllMissing(assessment.obs)
    /\ assessment.result[1].overall_risk = 0

Unusable(learned) ==
    /\ learned.kind = "vector"
    /\ \E c \in Categories :
          \/ learned.scores[c] = NaN
          \/ learned.scores[c] < 0
          \/ learned.scores[c] > Unit

\* C25: when the learned model's output holds a NaN or a value outside [0,1],
\* the learned tier counts as failed and the rule-based assessment is returned;
\* no assessment built from such an output is returned.
C25_UnusableLearnedOutputRejected ==
    (/\ assessment.op = "generate_risk_assessment"
     /\ assessment.obs.has_timestamp
     /\ Unusable(assessment.learned)) =>
        /\ assessment.learned_failed
        /\ assessment.result # <<>> => assessment.result[1].model_version = "rule_based_v1.0"

----------------------------------------------------------------------------
(* Properties of the ingestion, stated over IngestSpec *)

NoDuplicateRows == \A k \in Keys : ingestion.rows[k] <= 1

\* The step in which run r ends the creation of a record whose station,
\* timestamp and source a stored record already has.
CreatesDuplicate(r) ==
    /\ ingestion.runs[r].pc = "fetched"
    /\ ingestion'.runs[r].pc = "idle"
    /\ ingestion.rows[ingestion.runs[r].key] >= 1

----------------------------------------------------------------------------
(* Properties of the sensor registry, stated over IotSpec *)

\* C30: after any sequence of sensor data and sensor status messages, every
\* entry of the registry has first_seen, last_seen and message_count, the count
\* being the number of valid data messages received for the sensor, and
\* get_sensor_registry does not fail.
C30_RegistryEntriesComplete ==
    /\ \A s \in SensorIds :
          registry.entries[s].present =>
              /\ registry.entries[s].first_seen # <<>>
              /\ registry.entries[s].last_seen # <<>>
              /\ registry.entries[s].message_count = <<registry.valid[s]>>
    /\ registry.read # "KeyError"

====
